---------------------------- MODULE Spec2Model ----------------------------
(***************************************************************************)
(* Model of Shorekeeper.py, a Discord bot that records money collection    *)
(* payments typed in chat ("@user 10 paid") on Tuesday..Saturday and posts *)
(* a weekly report.                                                        *)
(*                                                                         *)
(* Text is modelled as a sequence of one-character strings, so that        *)
(* str.lower, str.strip, str.replace, str.split and float() are computed   *)
(* character by character as Python computes them.  The alphabet of the    *)
(* model is                                                                *)
(*     @  space  a b c d i p x  A B P  1 5  -                              *)
(* Over this alphabet float() accepts exactly an optional sign followed by *)
(* one or more digits (no '.', 'e', '_', "nan" or "inf" can be spelled),   *)
(* and every accepted token has an integer value, so amounts are integers. *)
(***************************************************************************)
EXTENDS Integers, Sequences, FiniteSets, TLC

VARIABLES
    members,         \* data["members"] in collection_data.json
    payments,        \* data["payments"] in collection_data.json
    report_channel,  \* data["report_channel"] in collection_data.json
    now,             \* the wall clock read by datetime.now()
    running,         \* sunday_report.is_running()
    lastOp,          \* what the handler that ran last did (observation)
    input,           \* the argument of the function or handler under study
    output,          \* what it returned, <<>> before it has run
    next_iteration,  \* the time the loop of sunday_report runs next
    posts,           \* the times at which sunday_report sent the report
    tasks,           \* the handlers in flight: their place and their local data
    current          \* the handler the event loop is running, 0 when it is free

vars == <<members, payments, report_channel, now, running, lastOp, input, output,
          next_iteration, posts, tasks, current>>

----------------------------------------------------------------------------
(* Bounds of the model *)

MaxPieces == 4
MaxLines == 3
MaxPayments == 2
MaxDay == 7
MaxWeekDay == 13
MaxReportPayments == 2
MaxPosts == 2
MaxHandlers == 2
MaxNamePieces == 2

----------------------------------------------------------------------------
(* Python str methods, on sequences of characters *)

\* Python's None, as a value no text is equal to
None == <<"None">>

\* "report_channel": None in the data file; channel ids are positive
NoChannel == 0

\* no handler has run yet
NoOp == [op |-> "none", arg |-> <<>>, res |-> "", saves |-> 0]

\* the loop of sunday_report is not started: no next iteration
NoTime == [day |-> -1, hour |-> 0]

\* the loop has not been started and nothing has been posted
NoLoop == next_iteration = NoTime /\ posts = <<>>

\* the step is not one of the loop
LoopUnchanged == UNCHANGED <<next_iteration, posts>>

\* no handler is in flight
NoTasks == tasks = <<>> /\ current = 0

\* the step is that of a handler that runs from its start to its end
TasksUnchanged == UNCHANGED <<tasks, current>>

LowerChar(c) ==
    CASE c = "A" -> "a"
      [] c = "B" -> "b"
      [] c = "P" -> "p"
      [] OTHER -> c

lower(s) == [i \in 1..Len(s) |-> LowerChar(s[i])]

IsSpace(c) == c = " "

RECURSIVE lstrip(_)
lstrip(s) ==
    IF s # <<>> /\ IsSpace(Head(s)) THEN lstrip(Tail(s)) ELSE s

RECURSIVE rstrip(_)
rstrip(s) ==
    IF s # <<>> /\ IsSpace(s[Len(s)]) THEN rstrip(SubSeq(s, 1, Len(s) - 1)) ELSE s

strip(s) == rstrip(lstrip(s))

startswith(s, prefix) ==
    Len(s) >= Len(prefix) /\ SubSeq(s, 1, Len(prefix)) = prefix

\* s.replace(old, ""): leftmost occurrences, not overlapping, in one pass
RECURSIVE replace(_, _)
replace(s, old) ==
    IF Len(s) < Len(old) THEN s
    ELSE IF startswith(s, old) THEN replace(SubSeq(s, Len(old) + 1, Len(s)), old)
    ELSE <<Head(s)>> \o replace(Tail(s), old)

\* s.split(): the maximal runs of non-whitespace characters
RECURSIVE SplitFrom(_, _)
SplitFrom(s, cur) ==
    IF s = <<>> THEN (IF cur = <<>> THEN <<>> ELSE <<cur>>)
    ELSE IF IsSpace(Head(s))
         THEN (IF cur = <<>> THEN <<>> ELSE <<cur>>) \o SplitFrom(Tail(s), <<>>)
         ELSE SplitFrom(Tail(s), Append(cur, Head(s)))

split(s) == SplitFrom(s, <<>>)

\* sep.join(parts)
RECURSIVE join(_, _)
join(parts, sep) ==
    IF parts = <<>> THEN <<>>
    ELSE IF Len(parts) = 1 THEN parts[1]
    ELSE parts[1] \o sep \o join(Tail(parts), sep)

Contains(s, c) == \E i \in 1..Len(s) : s[i] = c

IsDigit(c) == c \in {"0", "1", "2", "3", "4", "5", "6", "7", "8", "9"}

DigitVal(c) ==
    CASE c = "0" -> 0 [] c = "1" -> 1 [] c = "2" -> 2 [] c = "3" -> 3
      [] c = "4" -> 4 [] c = "5" -> 5 [] c = "6" -> 6 [] c = "7" -> 7
      [] c = "8" -> 8 [] c = "9" -> 9

IsSign(c) == c \in {"-", "+"}

Digits(tok) == IF tok # <<>> /\ IsSign(tok[1]) THEN Tail(tok) ELSE tok

\* float(tok) does not raise ValueError
IsFloat(tok) ==
    /\ Digits(tok) # <<>>
    /\ \A i \in 1..Len(Digits(tok)) : IsDigit(Digits(tok)[i])

RECURSIVE DecimalVal(_)
DecimalVal(ds) ==
    IF ds = <<>> THEN 0
    ELSE 10 * DecimalVal(SubSeq(ds, 1, Len(ds) - 1)) + DigitVal(ds[Len(ds)])

\* float(tok), for a token float() accepts
float(tok) ==
    IF tok[1] = "-" THEN 0 - DecimalVal(Digits(tok)) ELSE DecimalVal(Digits(tok))

----------------------------------------------------------------------------
(* parse_payment_line *)

PAID == <<"p", "a", "i", "d">>

\* line.replace(' paid', '').replace('paid', '')
RemovePaid(l) == replace(replace(l, <<" ">> \o PAID), PAID)

\* the loop "for i in range(len(parts) - 1, 0, -1)": the index of the first
\* token float() accepts, scanning from the last token down to index 1
\* (0-based), or -1.  parts is 1-based here, i is the 0-based index.
\* (a scan that only tries the last token)
ScanAmountLastOnly(parts, i) ==
    IF i >= 1 /\ IsFloat(parts[i + 1]) THEN i ELSE -1

\* (a scan that starts at token 1 and goes right: the leftmost number)
ScanAmountLeftmost(parts, i) ==
    LET found == {j \in 1..i : IsFloat(parts[j + 1])}
    IN  IF found = {} THEN -1 ELSE CHOOSE j \in found : \A k \in found : j <= k

RECURSIVE ScanAmount(_, _)
ScanAmount(parts, i) ==
    IF i <= 0 THEN -1
    ELSE IF IsFloat(parts[i + 1]) THEN i
    ELSE ScanAmount(parts, i - 1)

\* the loop "for member in members: if member.lower() == username.lower()"
RECURSIVE MatchMember(_, _)
MatchMember(ms, username) ==
    IF ms = <<>> THEN None
    ELSE IF lower(Head(ms)) = lower(username) THEN Head(ms)
    ELSE MatchMember(Tail(ms), username)

NoneNone == [username |-> None, amount |-> None]

\* lines 196-200: the roster's spelling of the name if there is one
Resolved(member, username, amount) ==
    IF member # None THEN [username |-> member, amount |-> amount]
    ELSE [username |-> username, amount |-> amount]

\* lines 189-200, with the index the scan found
ParseAt(parts, amount_index, ms) ==
    IF amount_index = -1 THEN NoneNone
    ELSE Resolved(MatchMember(ms, Tail(join(SubSeq(parts, 1, amount_index), <<" ">>))),
                  Tail(join(SubSeq(parts, 1, amount_index), <<" ">>)),
                  float(parts[amount_index + 1]))

\* lines 174-200, on the tokens of the line
ParseParts(parts, ms) ==
    IF Len(parts) < 2 THEN NoneNone
    ELSE ParseAt(parts, ScanAmount(parts, Len(parts) - 1), ms)

\* lines 166-200, on the trimmed and lowercased line
ParseNormal(l, ms) ==
    IF ~startswith(l, <<"@">>) THEN NoneNone
    ELSE ParseParts(split(RemovePaid(l)), ms)

parse_payment_line(l, ms) == ParseNormal(lower(strip(l)), ms)

----------------------------------------------------------------------------
(* Inputs of the model *)

Pieces ==
    { <<"@">>, <<"@", "a">>, <<" ">>, <<"5">>, <<"-">>, <<"B">>, PAID }

RECURSIVE LinesOf(_)
LinesOf(n) ==
    IF n = 0 THEN {<<>>}
    ELSE LET shorter == LinesOf(n - 1)
         IN  shorter \cup {l \o p : l \in shorter, p \in Pieces}

\* "@a 5 paid", "@B a 15 paid", "@a 5 x", "@1 5 1", "a 5 paid", " @A  5 Paid ",
\* "@a 5 15 B"
ExampleLines ==
    { <<"@", "a", " ", "5", " ", "p", "a", "i", "d">>,
      <<"@", "B", " ", "a", " ", "1", "5", " ", "p", "a", "i", "d">>,
      <<"@", "a", " ", "5", " ", "x">>,
      <<"@", "1", " ", "5", " ", "1">>,
      <<"a", " ", "5", " ", "p", "a", "i", "d">>,
      <<" ", "@", "A", " ", " ", "5", " ", "P", "a", "i", "d", " ">>,
      <<"@", "a", " ", "5", " ", "1", "5", " ", "B">> }

ParseLines == LinesOf(MaxPieces) \cup ExampleLines

\* rosters as setup and addmember store them: lowercase, no '@'
ParseRosters ==
    { <<>>, << <<"a">> >>, << <<"b", " ", "a">>, <<"b">> >> }

----------------------------------------------------------------------------
(* Specification of the pure function parse_payment_line *)

Idle ==
    /\ payments = <<>>
    /\ report_channel = NoChannel
    /\ now = [day |-> 0, hour |-> 0]
    /\ running = FALSE
    /\ lastOp = NoOp
    /\ NoLoop
    /\ NoTasks

InitParse ==
    /\ Idle
    /\ input \in ParseLines
    /\ members \in ParseRosters
    /\ output = <<>>

Parse ==
    /\ output = <<>>
    /\ output' = <<parse_payment_line(input, members)>>
    /\ UNCHANGED <<members, payments, report_channel, now, running, lastOp, input>>
    /\ LoopUnchanged
    /\ TasksUnchanged

SpecParse == InitParse /\ [][Parse]_vars

----------------------------------------------------------------------------
(* The clock and the calendar.  A clock value is [day, hour]: day counts    *)
(* days from Monday 2024-12-23 (day 0), hour is the hour of the day.        *)

DAYS == <<"Monday", "Tuesday", "Wednesday", "Thursday", "Friday", "Saturday", "Sunday">>

COLLECTION_DAYS == {1, 2, 3, 4, 5}

\* datetime.weekday(): Monday is 0
weekday(d) == d % 7

\* strftime("%Y-%m-%d"), as <<year, month, day of month>>
DateStr(d) ==
    LET n == d + 23
    IN  IF n <= 31 THEN <<2024, 12, n>>
        ELSE IF n <= 62 THEN <<2025, 1, n - 31>>
        ELSE <<2025, 2, n - 62>>

\* strftime("%H:%M:%S"); the model's clock stands on full hours
TimeStr(h) == <<h, 0, 0>>

is_collection_day(t) == weekday(t.day) \in COLLECTION_DAYS

is_report_day(t) == weekday(t.day) = 6

\* (the Monday branch forgotten: Monday falls into "current_weekday - 1")
get_week_range_NoMonday(t) ==
    LET current_weekday == weekday(t.day)
        days_since_tuesday == IF current_weekday = 6 THEN 5 ELSE current_weekday - 1
        tuesday == t.day - days_since_tuesday
    IN  <<tuesday, tuesday + 4>>

\* (Sunday taken as the start of the coming week)
get_week_range_SundayAhead(t) ==
    LET current_weekday == weekday(t.day)
        days_since_tuesday ==
            IF current_weekday = 6 THEN -2
            ELSE IF current_weekday >= 1 THEN current_weekday - 1
            ELSE 6
        tuesday == t.day - days_since_tuesday
    IN  <<tuesday, tuesday + 4>>

\* returns the dates (tuesday, saturday) as day numbers
get_week_range(t) ==
    LET current_weekday == weekday(t.day)
        days_since_tuesday ==
            IF current_weekday = 6 THEN 5
            ELSE IF current_weekday >= 1 THEN current_weekday - 1
            ELSE 6
        tuesday == t.day - days_since_tuesday
        saturday == tuesday + 4
    IN  <<tuesday, saturday>>

----------------------------------------------------------------------------
(* Specification of the pure function get_week_range *)

InitWeek ==
    /\ members = <<>>
    /\ payments = <<>>
    /\ report_channel = NoChannel
    /\ running = FALSE
    /\ lastOp = NoOp
    /\ NoLoop
    /\ NoTasks
    /\ now \in [day : 0..MaxWeekDay, hour : 0..23]
    /\ input = <<>>
    /\ output = <<>>

WeekRange ==
    /\ output = <<>>
    /\ output' = <<get_week_range(now)>>
    /\ UNCHANGED <<members, payments, report_channel, now, running, lastOp, input>>
    /\ LoopUnchanged
    /\ TasksUnchanged

SpecWeek == InitWeek /\ [][WeekRange]_vars

----------------------------------------------------------------------------
(* on_message *)

Range(s) == {s[i] : i \in 1..Len(s)}

\* a record of what a handler did
Op(op, arg, res, saves) == [op |-> op, arg |-> arg, res |-> res, saves |-> saves]

\* bot.user, and a human author
BotUser == "shorekeeper"

\* "if not member_match": None and the empty string are both falsy
Falsy(v) == v = None \/ v = <<>>

\* the dict built at lines 252-259, stamped with the clock value t
Payment(member, amount, t, author) ==
    [username |-> member,
     amount |-> amount,
     date |-> DateStr(t.day),
     time |-> TimeStr(t.hour),
     day |-> DAYS[weekday(t.day) + 1],
     recorded_by |-> author]

\* (the roster check of lines 246-248 left out: every parsed line is recorded)
RecordsLine_NoRosterCheck(ms, username) == TRUE

\* lines 240-248: the line is recorded iff the first roster entry equal to
\* username ignoring case is truthy
RecordsLine(ms, username) == ~Falsy(MatchMember(ms, username))

\* (save_data moved into the loop: one call per recorded payment)
SaveCalls_PerRecord(recorded_payments) == Len(recorded_payments)

\* lines 264-265: the number of save_data calls of one on_message
SaveCalls(recorded_payments) == IF recorded_payments # <<>> THEN 1 ELSE 0

\* lines 250-261: the payment is appended to the data and to the recorded list
Recorded(acc, payment) ==
    [acc EXCEPT !.payments = Append(@, payment),
                !.recorded_payments = Append(@, payment)]

\* lines 236-261, for what parse_payment_line returned
Classify(parsed, ms, author, t, acc) ==
    IF parsed.username = None THEN acc
    ELSE IF ~RecordsLine(ms, parsed.username)
    THEN [acc EXCEPT !.errors = Append(@, parsed.username)]
    ELSE Recorded(acc, Payment(MatchMember(ms, parsed.username), parsed.amount, t, author))

\* lines 230-261, for one stripped line; t is what datetime.now() returns at
\* line 251
ProcessLine(l, ms, author, t, acc) ==
    IF ~startswith(l, <<"@">>) THEN acc
    ELSE Classify(parse_payment_line(l, ms), ms, author, t, acc)

\* the loop of lines 229-261 from the i-th line on;
\* acc = [payments, recorded_payments, errors]
RECURSIVE ProcessLines(_, _, _, _, _, _)
ProcessLines(lines, i, ms, author, stamps, acc) ==
    IF i > Len(lines) THEN acc
    ELSE ProcessLines(lines, i + 1, ms, author, stamps,
                      ProcessLine(strip(lines[i]), ms, author, stamps[i], acc))

\* line 212: '@' in content and any(char.isdigit() for char in content)
LooksLikePayment(lines) ==
    /\ \E i \in 1..Len(lines) : Contains(lines[i], "@")
    /\ \E i \in 1..Len(lines) : \E j \in 1..Len(lines[i]) : IsDigit(lines[i][j])

\* a run that returns before line 220
Unhandled(ps, t, res) ==
    [payments |-> ps, recorded_payments |-> <<>>, errors |-> <<>>,
     saves |-> 0, now |-> t, res |-> res]

\* lines 263-305, after the loop
Handled(acc, t) ==
    [payments |-> acc.payments,
     recorded_payments |-> acc.recorded_payments,
     errors |-> acc.errors,
     saves |-> SaveCalls(acc.recorded_payments),
     now |-> t,
     res |-> IF acc.recorded_payments # <<>> THEN "recorded"
             ELSE IF acc.errors # <<>> THEN "warned" ELSE "silent"]

\* One run of on_message on a message whose content is the given lines (the
\* content split at '\n'), read against the data file (ms, ps).  t is the
\* clock at line 214; the clock reads of line 251 return t for the first k
\* lines and later for the rest.  Returns what the run wrote and sent.
on_message_run(lines, author, ms, ps, t, k, later) ==
    IF author = BotUser THEN Unhandled(ps, t, "own")
    ELSE IF ~LooksLikePayment(lines) THEN Unhandled(ps, t, "commands")
    ELSE IF ~is_collection_day(t) THEN Unhandled(ps, t, "closed")
    ELSE Handled(ProcessLines(lines, 1, ms, author,
                              [i \in 1..Len(lines) |-> IF i <= k THEN t ELSE later],
                              [payments |-> ps, recorded_payments |-> <<>>,
                               errors |-> <<>>]),
                 later)

\* the clock one hour later
Later(t) ==
    IF t.hour < 23 THEN [day |-> t.day, hour |-> t.hour + 1]
    ELSE [day |-> t.day + 1, hour |-> 0]

Before(t1, t2) == t1.day < t2.day \/ (t1.day = t2.day /\ t1.hour < t2.hour)

\* the clock readings one run may see: no advance (k = number of lines), or an
\* advance to the next hour after the k-th line
Readings(lines, t) ==
    {<<Len(lines), t>>} \cup {<<k, Later(t)>> : k \in 0..(Len(lines) - 1)}

\* what a run leaves behind: the saved file and the clock
on_message_done(run) ==
    /\ payments' = run.payments
    /\ now' = run.now
    /\ lastOp' = Op("on_message", <<>>, run.res, run.saves)
    /\ UNCHANGED <<members, report_channel, running>>

on_message(lines, author, k, later) ==
    on_message_done(on_message_run(lines, author, members, payments, now, k, later))

----------------------------------------------------------------------------
(* generate_weekly_report.  The text is modelled by its parts: the header   *)
(* dates, one section per day, one summary line per key of member_totals,   *)
(* and the weekly total, with the amounts formatted as the code formats them *)

\* f"{x:.2f}", for the integer-valued amounts of the model
Fmt2f(x) == IF x < 0 THEN "-" \o ToString(0 - x) \o ".00" ELSE ToString(x) \o ".00"

\* day_name[:3]
Abbrev(day_name) ==
    CASE day_name = "Monday" -> "Mon" [] day_name = "Tuesday" -> "Tue"
      [] day_name = "Wednesday" -> "Wed" [] day_name = "Thursday" -> "Thu"
      [] day_name = "Friday" -> "Fri" [] day_name = "Saturday" -> "Sat"
      [] day_name = "Sunday" -> "Sun"

\* the running sums "total += p['amount']", in list order
RECURSIVE SumAmounts(_)
SumAmounts(ps) == IF ps = <<>> THEN 0 ELSE ps[1].amount + SumAmounts(Tail(ps))

\* the keys of {member: 0 for member in members}, in insertion order: a dict
\* holds a repeated name once
RECURSIVE Keys(_)
Keys(ms) ==
    IF ms = <<>> THEN <<>>
    ELSE LET rest == Keys(SubSeq(ms, 1, Len(ms) - 1))
         IN  IF ms[Len(ms)] \in Range(rest) THEN rest ELSE Append(rest, ms[Len(ms)])

\* (the loop condition written "current_date < saturday")
LastReportDay_Exclusive(saturday) == saturday - 1

\* line 101: the loop runs while current_date <= saturday
LastReportDay(saturday) == saturday

\* (member totals updated without the test of line 116 is a KeyError in
\* Python; the plausible slip is to add the payment to every member)
Credits_Everyone(p, m) == TRUE

\* lines 116-118: a payment is added to the total of the key equal to its username
Credits(p, m) == p.username = m

\* the loop of lines 101-121 from current_date on;
\* acc = [sections, week_total, member_totals, member_days]
RECURSIVE WeekLoop(_, _, _, _)
WeekLoop(ps, current_date, last, acc) ==
    IF current_date > last THEN acc
    ELSE
    LET date_str == DateStr(current_date)
        day_name == DAYS[weekday(current_date) + 1]
        day_payments == SelectSeq(ps, LAMBDA p : p.date = date_str)
        section ==
            [day_name |-> day_name,
             date_str |-> date_str,
             no_payments |-> day_payments = <<>>,
             items |-> [i \in 1..Len(day_payments) |->
                          <<day_payments[i].username, Fmt2f(day_payments[i].amount)>>],
             daily_total |-> IF day_payments = <<>> THEN ""
                             ELSE Fmt2f(SumAmounts(day_payments))]
        mine(m) == SelectSeq(day_payments, LAMBDA p : Credits(p, m))
    IN  WeekLoop(ps, current_date + 1, last,
            [sections |-> Append(acc.sections, section),
             week_total |-> acc.week_total + SumAmounts(day_payments),
             member_totals |-> [m \in DOMAIN acc.member_totals |->
                                  acc.member_totals[m] + SumAmounts(mine(m))],
             member_days |-> [m \in DOMAIN acc.member_days |->
                                acc.member_days[m] \o
                                [i \in 1..Len(mine(m)) |-> Abbrev(day_name)]]])

generate_weekly_report(ms, ps, t) ==
    LET tuesday == get_week_range(t)[1]
        saturday == get_week_range(t)[2]
        totals == WeekLoop(ps, tuesday, LastReportDay(saturday),
                      [sections |-> <<>>,
                       week_total |-> 0,
                       member_totals |-> [m \in Range(ms) |-> 0],
                       member_days |-> [m \in Range(ms) |-> <<>>]])
        keys == Keys(ms)
    IN  [week |-> <<DateStr(tuesday), DateStr(saturday)>>,
         sections |-> totals.sections,
         summary |-> [i \in 1..Len(keys) |->
                        [status |-> IF totals.member_totals[keys[i]] > 0
                                    THEN "paid" ELSE "unpaid",
                         member |-> keys[i],
                         total |-> Fmt2f(totals.member_totals[keys[i]]),
                         days |-> IF totals.member_days[keys[i]] # <<>>
                                  THEN totals.member_days[keys[i]] ELSE <<"None">>]],
         week_total |-> Fmt2f(totals.week_total)]

----------------------------------------------------------------------------
(* Specification of the function generate_weekly_report, on ledgers the bot *)
(* can hold: payments stamped on collection days in clock order, none later *)
(* than now, with the names that were in the roster when they were recorded *)

Alice == <<"a">>
Bob == <<"b">>

ReportPayDays == {2, 5, 8}

ReportRecords ==
    {Payment(u, amt, [day |-> d, hour |-> 9], "alice") :
        u \in {Alice, Bob}, amt \in {5, -5}, d \in ReportPayDays}

StampDay(p) == CHOOSE d \in ReportPayDays : DateStr(d) = p.date

RECURSIVE LedgersOf(_)
LedgersOf(n) ==
    IF n = 0 THEN {<<>>}
    ELSE LET shorter == LedgersOf(n - 1)
         IN  shorter \cup
             {Append(ps, p) : ps \in shorter, p \in ReportRecords}

InClockOrder(ps, t) ==
    /\ \A i \in 1..Len(ps) : StampDay(ps[i]) <= t.day
    /\ \A i \in 1..(Len(ps) - 1) : StampDay(ps[i]) <= StampDay(ps[i + 1])

\* rosters after addmember a, b; after removemember b; after setup a a b b;
\* empty; after removemember a
ReportRosters ==
    { <<Alice, Bob>>, <<Alice>>, <<Alice, Alice, Bob, Bob>>, <<>>, <<Bob>> }

InitReport ==
    /\ members \in ReportRosters
    /\ now \in [day : 0..MaxWeekDay, hour : {9}]
    /\ payments \in {ps \in LedgersOf(MaxReportPayments) : InClockOrder(ps, now)}
    /\ report_channel = NoChannel
    /\ running = FALSE
    /\ lastOp = NoOp
    /\ NoLoop
    /\ NoTasks
    /\ input = <<>>
    /\ output = <<>>

\* (a report that empties the payments it has reported, as clear does)
Report_Consuming ==
    /\ Len(output) < 2
    /\ output' = Append(output, generate_weekly_report(members, payments, now))
    /\ payments' = <<>>
    /\ UNCHANGED <<members, report_channel, now, running, lastOp, input>>
    /\ LoopUnchanged
    /\ TasksUnchanged

\* one call of generate_weekly_report; it is called twice on the same data at
\* the same time
Report ==
    /\ Len(output) < 2
    /\ output' = Append(output, generate_weekly_report(members, payments, now))
    /\ UNCHANGED <<members, payments, report_channel, now, running, lastOp, input>>
    /\ LoopUnchanged
    /\ TasksUnchanged

SpecReport == InitReport /\ [][Report]_vars

----------------------------------------------------------------------------
(* The slash commands and the scheduled task *)

\* name.lower().replace("@", "")
NormalizeName(name) == replace(lower(name), <<"@">>)

\* list.remove(x): the first occurrence goes
RECURSIVE remove(_, _)
remove(s, x) ==
    IF s = <<>> THEN <<>>
    ELSE IF Head(s) = x THEN Tail(s)
    ELSE <<Head(s)>> \o remove(Tail(s), x)

setup(member1, member2, member3, member4, channel_id) ==
    /\ members' = <<NormalizeName(member1), NormalizeName(member2),
                    NormalizeName(member3), NormalizeName(member4)>>
    /\ report_channel' = channel_id
    /\ lastOp' = Op("setup", <<>>, "complete", 1)
    /\ UNCHANGED <<payments, now, running>>

\* (the test of line 369 made against the name as typed)
IsMember_AsTyped(ms, typed, name) == typed \in Range(ms)

\* lines 369 and 388: "name in data.get('members', [])", name normalized
IsMember(ms, typed, name) == name \in Range(ms)

addmember(typed) ==
    LET name == NormalizeName(typed)
    IN  IF IsMember(members, typed, name)
        THEN /\ lastOp' = Op("addmember", typed, "already in the list", 0)
             /\ UNCHANGED <<members, payments, report_channel, now, running>>
        ELSE /\ members' = Append(members, name)
             /\ lastOp' = Op("addmember", typed, "added", 1)
             /\ UNCHANGED <<payments, report_channel, now, running>>

removemember(typed) ==
    LET name == NormalizeName(typed)
    IN  IF ~IsMember(members, typed, name)
        THEN /\ lastOp' = Op("removemember", typed, "not in the list", 0)
             /\ UNCHANGED <<members, payments, report_channel, now, running>>
        ELSE /\ members' = remove(members, name)
             /\ lastOp' = Op("removemember", typed, "removed", 1)
             /\ UNCHANGED <<payments, report_channel, now, running>>

\* /members: reads the roster and sends it
members_command ==
    /\ lastOp' = Op("members", <<>>, IF members = <<>> THEN "no members" ELSE "listed",
                    0)
    /\ UNCHANGED <<members, payments, report_channel, now, running>>

\* /today: reads the payments dated today and sends the summary
today ==
    /\ lastOp' = Op("today", <<>>,
                    IF SelectSeq(payments, LAMBDA p : p.date = DateStr(now.day)) = <<>>
                    THEN "no payments" ELSE "summary", 0)
    /\ UNCHANGED <<members, payments, report_channel, now, running>>

\* /report: sends generate_weekly_report(data)
report ==
    /\ lastOp' = Op("report", <<>>,
                    generate_weekly_report(members, payments, now).week_total, 0)
    /\ UNCHANGED <<members, payments, report_channel, now, running>>

\* (clear written to reset the whole file to the default of load_data)
ClearedMembers_Reset(ms) == <<>>

\* lines 459-461: clear saves the loaded data with only "payments" replaced
ClearedMembers(ms) == ms

clear ==
    /\ payments' = <<>>
    /\ members' = ClearedMembers(members)
    /\ lastOp' = Op("clear", <<>>, "cleared", 1)
    /\ UNCHANGED <<report_channel, now, running>>

\* /help: sends the help text
help_command ==
    /\ lastOp' = Op("help", <<>>, "help", 0)
    /\ UNCHANGED <<members, payments, report_channel, now, running>>

\* on_ready: starts the hourly task unless it is running
on_ready ==
    /\ running' = TRUE
    /\ lastOp' = Op("on_ready", <<>>, IF running THEN "running" ELSE "started", 0)
    /\ UNCHANGED <<members, payments, report_channel, now>>

\* the process is stopped and started again: the data file stays, the task is
\* not running until on_ready
restart ==
    /\ running
    /\ running' = FALSE
    /\ lastOp' = Op("restart", <<>>, "", 0)
    /\ UNCHANGED <<members, payments, report_channel, now>>

\* One iteration of sunday_report.  env_channel is REPORT_CHANNEL_ID,
\* resolvable tells whether bot.get_channel finds the channel.
sunday_report(env_channel, resolvable) ==
    /\ running
    /\ LET channel_id == IF report_channel # NoChannel THEN report_channel ELSE env_channel
       IN  lastOp' = Op("sunday_report", <<>>,
                        IF weekday(now.day) = 6 /\ now.hour = 9
                           /\ channel_id # NoChannel /\ resolvable
                        THEN generate_weekly_report(members, payments, now).week_total
                        ELSE "skipped", 0)
    /\ UNCHANGED <<members, payments, report_channel, now, running>>

\* time passes
Tick(t) ==
    /\ Before(now, t)
    /\ now' = t
    /\ lastOp' = Op("tick", <<>>, "", 0)
    /\ UNCHANGED <<members, payments, report_channel, running>>

----------------------------------------------------------------------------
(* Specification of the bot: the handlers run one at a time against the     *)
(* data file, from an empty file on a Saturday morning                      *)

\* "@A 5 paid", "@b 15", "@a paid"
BotLines ==
    { <<"@", "A", " ", "5", " ", "p", "a", "i", "d">>,
      <<"@", "b", " ", "1", "5">>,
      <<"@", "a", " ", "p", "a", "i", "d">> }

\* the messages of one or two of these lines
BotMessages == {<<l>> : l \in BotLines} \cup {<<l1, l2>> : l1 \in BotLines, l2 \in BotLines}

\* names as typed into /addmember and /removemember: "a", "@A", "b"
NameInputs == { <<"a">>, <<"@", "A">>, <<"b">> }

\* the four names as typed into /setup: "@A", "a", "b", "b"
SetupInputs == { << <<"@", "A">>, <<"a">>, <<"b">>, <<"b">> >> }

Channels == {101}

\* the bot is used once a day, at nine, from Saturday 2024-12-28 (day 5) on
Clocks == [day : 5..MaxDay, hour : {9}]

Init ==
    /\ members = <<>>
    /\ payments = <<>>
    /\ report_channel = NoChannel
    /\ now = [day |-> 5, hour |-> 9]
    /\ running = FALSE
    /\ lastOp = NoOp
    /\ NoLoop
    /\ NoTasks
    /\ input = <<>>
    /\ output = <<>>

Pure == UNCHANGED <<input, output>> /\ LoopUnchanged /\ TasksUnchanged

OnMessage ==
    /\ \E lines \in BotMessages : on_message(lines, "alice", Len(lines), now)
    /\ Len(payments') <= MaxPayments
    /\ Pure

OnOwnMessage ==
    /\ \E lines \in BotMessages : on_message(lines, BotUser, Len(lines), now)
    /\ Pure

Setup ==
    /\ \E m \in SetupInputs, c \in Channels : setup(m[1], m[2], m[3], m[4], c)
    /\ Pure

AddMember == (\E typed \in NameInputs : addmember(typed)) /\ Pure

RemoveMember == (\E typed \in NameInputs : removemember(typed)) /\ Pure

Members == members_command /\ Pure

Today == today /\ Pure

ReportCommand == report /\ Pure

Clear == clear /\ Pure

Help == help_command /\ Pure

OnReady == on_ready /\ Pure

Restart == restart /\ Pure

SundayReport ==
    /\ \E env \in Channels \cup {NoChannel}, ok \in BOOLEAN : sunday_report(env, ok)
    /\ Pure

TimePasses == (\E t \in Clocks : Tick(t)) /\ Pure

Next ==
    \/ OnMessage
    \/ OnOwnMessage
    \/ Setup
    \/ AddMember
    \/ RemoveMember
    \/ Members
    \/ Today
    \/ ReportCommand
    \/ Clear
    \/ Help
    \/ OnReady
    \/ Restart
    \/ SundayReport
    \/ TimePasses

Spec == Init /\ [][Next]_vars

----------------------------------------------------------------------------
(* Specification of one run of on_message: a message of up to MaxLines      *)
(* lines from a user, read against a data file the bot can hold, with the   *)
(* clock possibly moving to the next hour between two lines                 *)

\* the member stored by /addmember "@"
NoName == <<>>

\* rosters after addmember a, b; after addmember a, "@"; empty
MsgRosters == { <<Alice, Bob>>, <<Alice, NoName>>, <<>> }

\* "@a 5 paid", " @B 15", "@x 5", "a 5", "@ 5", "@a -5"
MsgLines ==
    { <<"@", "a", " ", "5", " ", "p", "a", "i", "d">>,
      <<" ", "@", "B", " ", "1", "5">>,
      <<"@", "x", " ", "5">>,
      <<"a", " ", "5">>,
      <<"@", " ", "5">>,
      <<"@", "a", " ", "-", "5">> }

RECURSIVE MessagesOf(_)
MessagesOf(n) ==
    IF n = 0 THEN {<<>>}
    ELSE LET shorter == MessagesOf(n - 1)
         IN  shorter \cup {Append(m, l) : m \in shorter, l \in MsgLines}

Messages == MessagesOf(MaxLines) \ {<<>>}

\* Tuesday 09:00, Saturday 23:00, Sunday 09:00
MsgClocks == { [day |-> 1, hour |-> 9], [day |-> 5, hour |-> 23], [day |-> 6, hour |-> 9] }

\* the data file holds no payment, or one recorded on Tuesday 2024-12-24
MsgLedgers == { <<>>, <<Payment(Alice, 5, [day |-> 1, hour |-> 9], "bob")>> }

InitMsg ==
    /\ members \in MsgRosters
    /\ payments \in MsgLedgers
    /\ now \in MsgClocks
    /\ \E lines \in Messages : \E r \in Readings(lines, now) :
           input = [lines |-> lines, k |-> r[1], later |-> r[2]]
    /\ report_channel = NoChannel
    /\ running = FALSE
    /\ lastOp = NoOp
    /\ NoLoop
    /\ NoTasks
    /\ output = <<>>

\* what the run appended, warned about and saved
Sent(run) ==
    [recorded_payments |-> run.recorded_payments, errors |-> run.errors,
     saves |-> run.saves, res |-> run.res]

MsgDone(run) == on_message_done(run) /\ output' = <<Sent(run)>>

Message ==
    /\ output = <<>>
    /\ MsgDone(on_message_run(input.lines, "alice", members, payments, now,
                              input.k, input.later))
    /\ UNCHANGED input
    /\ LoopUnchanged
    /\ TasksUnchanged

SpecMsg == InitMsg /\ [][Message]_vars

----------------------------------------------------------------------------
(* Specification of the loop of sunday_report: @tasks.loop(hours=1) runs    *)
(* one iteration when it is started and one every hour after that; on_ready *)
(* starts it unless it is running; a restart of the process stops it.  The  *)
(* clock moves hour by hour and does not pass a due iteration.              *)

\* line 312: hours=1
LoopHours == 1

\* the clock h hours later
RECURSIVE After(_, _)
After(t, h) == IF h = 0 THEN t ELSE After(Later(t), h - 1)

\* (the loop declared with hours=2)
NextIteration_TwoHours(t) == After(t, 2)

\* the iteration after the one that ran at t
NextIteration(t) == After(t, LoopHours)

\* lines 155-156: sunday_report.start() runs the first iteration at once
LoopOnReady ==
    /\ on_ready
    /\ next_iteration' = IF running THEN next_iteration ELSE now
    /\ UNCHANGED <<input, output, posts>>
    /\ TasksUnchanged

\* the process is stopped: the loop goes with it, what was sent stays sent
LoopRestart ==
    /\ restart
    /\ next_iteration' = NoTime
    /\ UNCHANGED <<input, output, posts>>
    /\ TasksUnchanged

\* lines 328-329 have run in this step
Sends(op) == op.op = "sunday_report" /\ op.res # "skipped"

\* one iteration of the loop, when it is due
LoopIterate(env_channel, resolvable) ==
    /\ next_iteration = now
    /\ Len(posts) < MaxPosts
    /\ sunday_report(env_channel, resolvable)
    /\ next_iteration' = NextIteration(now)
    /\ posts' = IF Sends(lastOp') THEN Append(posts, now) ELSE posts
    /\ UNCHANGED <<input, output>>
    /\ TasksUnchanged

LoopIteration ==
    \E env \in Channels \cup {NoChannel}, ok \in BOOLEAN : LoopIterate(env, ok)

\* an hour passes, unless an iteration is due
LoopTick ==
    /\ ~(running /\ next_iteration = now)
    /\ Later(now).day <= MaxDay
    /\ Tick(Later(now))
    /\ UNCHANGED <<input, output, next_iteration, posts>>
    /\ TasksUnchanged

\* the bot is started on Saturday 2024-12-28 at 22:00 with an empty data file
InitLoop ==
    /\ members = <<>>
    /\ payments = <<>>
    /\ report_channel = NoChannel
    /\ now = [day |-> 5, hour |-> 22]
    /\ running = FALSE
    /\ lastOp = NoOp
    /\ NoLoop
    /\ NoTasks
    /\ input = <<>>
    /\ output = <<>>

NextLoop ==
    \/ LoopOnReady
    \/ LoopRestart
    \/ LoopIteration
    \/ LoopTick

SpecLoop == InitLoop /\ [][NextLoop]_vars

----------------------------------------------------------------------------
(* Specification of the loop in a process that is not restarted, with a     *)
(* report channel that is configured and resolvable: the loop keeps running *)
(* its due iterations and the clock keeps moving                            *)

LiveIteration == \E env \in Channels : LoopIterate(env, TRUE)

NextLive ==
    \/ LoopOnReady
    \/ LiveIteration
    \/ LoopTick

SpecLive ==
    /\ InitLoop
    /\ [][NextLive]_vars
    /\ WF_vars(LiveIteration)
    /\ WF_vars(LoopTick)

----------------------------------------------------------------------------
(* Specification of handlers in flight at once.  The handlers are coroutines *)
(* of one event loop: a handler that has started runs until it reaches an   *)
(* await, and only there can another handler run.  Each handler is cut at   *)
(* load_data and save_data: "start", "loaded" (load_data has returned into  *)
(* the local data), "saved" (the local data is modified and, if the handler *)
(* saves, written), "done" (the reply is sent).                             *)

\* the data file as load_data returns it
File == [members |-> members, payments |-> payments, report_channel |-> report_channel]

\* the default of load_data, line 44
EmptyFile == [members |-> <<>>, payments |-> <<>>, report_channel |-> NoChannel]

\* what a handler does to its local data between load_data and its reply:
\* the data it holds then, the number of save_data calls and the number of
\* payments it appended
Outcome(data, saves, appended) == [data |-> data, saves |-> saves, appended |-> appended]

MessageOutcome(data, run) ==
    Outcome([data EXCEPT !.payments = run.payments], run.saves,
            Len(run.recorded_payments))

AddOutcome(data, typed, name) ==
    IF IsMember(data.members, typed, name) THEN Outcome(data, 0, 0)
    ELSE Outcome([data EXCEPT !.members = Append(@, name)], 1, 0)

RemoveOutcome(data, typed, name) ==
    IF ~IsMember(data.members, typed, name) THEN Outcome(data, 0, 0)
    ELSE Outcome([data EXCEPT !.members = remove(@, name)], 1, 0)

Modified(op, arg, data, t) ==
    CASE op = "on_message" ->
           MessageOutcome(data, on_message_run(arg, "alice", data.members,
                                               data.payments, t, Len(arg), t))
      [] op = "addmember" -> AddOutcome(data, arg, NormalizeName(arg))
      [] op = "removemember" -> RemoveOutcome(data, arg, NormalizeName(arg))
      [] op = "setup" ->
           Outcome([data EXCEPT !.members = [i \in 1..4 |-> NormalizeName(arg[i])],
                                !.report_channel = 101], 1, 0)
      [] op = "clear" ->
           Outcome([data EXCEPT !.payments = <<>>,
                                !.members = ClearedMembers(@)], 1, 0)

\* (an await between load_data and save_data)
AwaitPoints_AfterLoad == {"loaded", "saved"}

\* the places at which a handler is at an await: the reply that follows
\* save_data (lines 302, 305, 350, 370, 378, 389, 395, 463); there is no
\* await between load_data and save_data
AwaitPoints == {"saved"}

\* the event loop after a handler has reached the place pc
Release(pc, h) == IF pc \in AwaitPoints THEN 0 ELSE h

\* the event loop can run the next step of handler h
CanRun(h) ==
    \/ current = h
    \/ current = 0 /\ tasks[h].pc \in AwaitPoints \cup {"start"}

AsyncFrame == UNCHANGED <<now, running, input, output, next_iteration, posts>>

\* load_data
AsyncLoad(h) ==
    /\ tasks[h].pc = "start"
    /\ CanRun(h)
    /\ tasks' = [tasks EXCEPT ![h].pc = "loaded", ![h].data = File]
    /\ current' = Release("loaded", h)
    /\ UNCHANGED <<members, payments, report_channel, lastOp>>
    /\ AsyncFrame

\* the local data is written to the file if the handler saves
Written(h, out) ==
    /\ members' = IF out.saves > 0 THEN out.data.members ELSE members
    /\ payments' = IF out.saves > 0 THEN out.data.payments ELSE payments
    /\ report_channel' = IF out.saves > 0 THEN out.data.report_channel
                          ELSE report_channel
    /\ tasks' = [tasks EXCEPT ![h].pc = "saved", ![h].saves = out.saves,
                              ![h].appended = out.appended]
    /\ lastOp' = Op(tasks[h].op, <<>>, "", out.saves)

\* the handler's code from load_data to save_data
AsyncSave(h) ==
    /\ tasks[h].pc = "loaded"
    /\ CanRun(h)
    /\ Written(h, Modified(tasks[h].op, tasks[h].arg, tasks[h].data, now))
    /\ current' = Release("saved", h)
    /\ AsyncFrame

\* the reply is sent and the handler returns
AsyncReply(h) ==
    /\ tasks[h].pc = "saved"
    /\ CanRun(h)
    /\ tasks' = [tasks EXCEPT ![h].pc = "done"]
    /\ current' = 0
    /\ UNCHANGED <<members, payments, report_channel, lastOp>>
    /\ AsyncFrame

\* the handlers that are in flight: messages "@a 5 paid" and "@b 15",
\* /addmember b, /removemember a, /clear, /setup
AsyncCalls ==
    { [op |-> "on_message", arg |-> << <<"@", "a", " ", "5", " ", "p", "a", "i", "d">> >>],
      [op |-> "on_message", arg |-> << <<"@", "b", " ", "1", "5">> >>],
      [op |-> "addmember", arg |-> <<"b">>],
      [op |-> "removemember", arg |-> <<"a">>],
      [op |-> "clear", arg |-> <<>>] } \cup
    { [op |-> "setup", arg |-> m] : m \in SetupInputs }

Started(call) ==
    [op |-> call.op, arg |-> call.arg, pc |-> "start", data |-> EmptyFile,
     saves |-> 0, appended |-> 0]

\* a Tuesday morning, the roster holds "a", MaxHandlers handlers have been
\* called and none has started
InitAsync ==
    /\ members = <<Alice>>
    /\ payments = <<>>
    /\ report_channel = NoChannel
    /\ now = [day |-> 1, hour |-> 9]
    /\ running = FALSE
    /\ lastOp = NoOp
    /\ NoLoop
    /\ input = <<>>
    /\ output = <<>>
    /\ tasks \in [1..MaxHandlers -> {Started(c) : c \in AsyncCalls}]
    /\ current = 0

Load == \E h \in 1..Len(tasks) : AsyncLoad(h)

Save == \E h \in 1..Len(tasks) : AsyncSave(h)

Reply == \E h \in 1..Len(tasks) : AsyncReply(h)

NextAsync ==
    \/ Load
    \/ Save
    \/ Reply

SpecAsync == InitAsync /\ [][NextAsync]_vars

----------------------------------------------------------------------------
(* Specification of paying for a member: a name is stored by /addmember or  *)
(* /setup in an empty data file, and a message "@<name> <amount> paid" for  *)
(* the stored name is sent on a Tuesday                                     *)

NamePieces == { <<"a">>, <<"b">>, <<" ">>, <<"5">>, <<"@">>, <<"A">>, PAID }

RECURSIVE NamesOf(_)
NamesOf(n) ==
    IF n = 0 THEN {<<>>}
    ELSE LET shorter == NamesOf(n - 1)
         IN  shorter \cup {m \o q : m \in shorter, q \in NamePieces}

\* the names as typed into the command
PayNames == NamesOf(MaxNamePieces) \ {<<>>}

\* the amounts as typed into the message: "5", "15"
PayAmounts == { <<"5">>, <<"1", "5">> }

\* '@' + m + ' ' + a + ' paid'
PayLine(m, a) == <<"@">> \o m \o <<" ">> \o a \o <<" ">> \o PAID

InitPay ==
    /\ members = <<>>
    /\ payments = <<>>
    /\ report_channel = NoChannel
    /\ now = [day |-> 1, hour |-> 9]
    /\ running = FALSE
    /\ lastOp = NoOp
    /\ NoLoop
    /\ NoTasks
    /\ input \in [typed : PayNames, amount : PayAmounts]
    /\ output = <<>>

PayAdd ==
    /\ lastOp.op = "none"
    /\ addmember(input.typed)
    /\ Pure

PaySetup ==
    /\ lastOp.op = "none"
    /\ setup(input.typed, <<"c">>, <<"d">>, <<"x">>, 101)
    /\ Pure

PayMessage ==
    /\ lastOp.op \in {"addmember", "setup"}
    /\ on_message(<<PayLine(members[1], input.amount)>>, "alice", 1, now)
    /\ Pure

NextPay ==
    \/ PayAdd
    \/ PaySetup
    \/ PayMessage

SpecPay == InitPay /\ [][NextPay]_vars

----------------------------------------------------------------------------
(* Claims about one run of on_message (under SpecMsg) *)

\* the run has happened and reached the loop over the lines
Looped == output # <<>> /\ output[1].res \in {"recorded", "warned", "silent"}

ParsedLine(i) == parse_payment_line(input.lines[i], members)

\* the lines of the message that parse_payment_line accepts
AcceptedLines == {i \in 1..Len(input.lines) : ParsedLine(i).username # None}

RECURSIVE Ascending(_)
Ascending(S) ==
    IF S = {} THEN <<>>
    ELSE LET m == CHOOSE x \in S : \A y \in S : x <= y
         IN  <<m>> \o Ascending(S \ {m})

\* the records are those of the lines R, in order, one each
RecordsOf(R) ==
    LET idx == Ascending(R)
    IN  /\ Len(output[1].recorded_payments) = Len(idx)
        /\ \A j \in 1..Len(idx) :
              /\ output[1].recorded_payments[j].username = ParsedLine(idx[j]).username
              /\ output[1].recorded_payments[j].amount = ParsedLine(idx[j]).amount

\* the warnings are those of the lines W, in order, one each
WarningsOf(W) ==
    LET idx == Ascending(W)
    IN  /\ Len(output[1].errors) = Len(idx)
        /\ \A j \in 1..Len(idx) : output[1].errors[j] = ParsedLine(idx[j]).username

\* C1: in a run of on_message that reaches the loop, the accepted lines split
\* into those that gave one record each and those that gave one warning each
\* (every accepted line is in exactly one of the two, also when it comes after
\* an unmatched line), the records are the new end of the saved payments, and
\* save_data is called once if there is a record and not at all otherwise.
C1_OneRecordOrWarning ==
    Looped =>
        /\ \E R \in SUBSET AcceptedLines :
              RecordsOf(R) /\ WarningsOf(AcceptedLines \ R)
        /\ Len(payments) >= Len(output[1].recorded_payments)
        /\ SubSeq(payments, Len(payments) - Len(output[1].recorded_payments) + 1,
                  Len(payments)) = output[1].recorded_payments
        /\ output[1].saves = IF output[1].recorded_payments # <<>> THEN 1 ELSE 0
        /\ lastOp.saves = output[1].saves

\* a message of three accepted lines whose first line is unmatched: two
\* records, one warning, one save
C1_Witness ==
    /\ Looped
    /\ Len(input.lines) = 3
    /\ AcceptedLines = {1, 2, 3}
    /\ ParsedLine(1).username = <<"x">>
    /\ output[1].errors = << <<"x">> >>
    /\ Len(output[1].recorded_payments) = 2
    /\ output[1].saves = 1

----------------------------------------------------------------------------
(* Claims about the bot (under Spec) *)

\* C2: every record on_message appends carries a name that is in the roster
\* at that step, spelled as the roster spells it, and a removemember step
\* leaves the payments as they were.
C2_RecordedNameInRoster ==
    [][ /\ lastOp'.op = "on_message" =>
             /\ Len(payments') >= Len(payments)
             /\ members' = members
             /\ \A i \in (Len(payments) + 1)..Len(payments') :
                   payments'[i].username \in Range(members)
        /\ lastOp'.op = "removemember" => payments' = payments ]_vars

\* a removemember has just removed a name and a record with that name is
\* still in the payments
C2_Witness ==
    /\ lastOp.op = "removemember"
    /\ lastOp.res = "removed"
    /\ \E i \in 1..Len(payments) :
          /\ payments[i].username = NormalizeName(lastOp.arg)
          /\ payments[i].username \notin Range(members)

\* C3: a step changes the payments only by on_message adding records at the
\* end, the records before it staying as they were, or by clear emptying
\* them; clear leaves the roster and the report channel as they were.
C3_AppendOrClear ==
    [][ /\ payments' # payments =>
             \/ /\ lastOp'.op = "on_message"
                /\ Len(payments') > Len(payments)
                /\ SubSeq(payments', 1, Len(payments)) = payments
             \/ /\ lastOp'.op = "clear"
                /\ payments' = <<>>
        /\ lastOp'.op = "clear" =>
             /\ payments' = <<>>
             /\ members' = members
             /\ report_channel' = report_channel ]_vars

\* clear has just run on a file with a roster and a report channel
C3_Witness ==
    /\ lastOp.op = "clear"
    /\ payments = <<>>
    /\ members # <<>>
    /\ report_channel # NoChannel

\* C4 (as the specification states it): no two entries of the roster are
\* equal when compared case-insensitively.
C4_NoDuplicates ==
    \A i \in 1..Len(members) : \A j \in 1..Len(members) :
        i # j => lower(members[i]) # lower(members[j])

\* the name as typed, without a leading '@' and in lower case
Folded(typed) ==
    lower(IF typed # <<>> /\ typed[1] = "@" THEN Tail(typed) ELSE typed)

\* C5: an addmember that follows a successful addmember of the same name, in
\* any letter case and with or without the leading '@', answers that the
\* member is already in the list, does not save, and leaves the roster, the
\* payments and the report channel as they were.
C5_SecondAddRefused ==
    [][ ( /\ lastOp.op = "addmember" /\ lastOp.res = "added"
          /\ lastOp'.op = "addmember"
          /\ Folded(lastOp'.arg) = Folded(lastOp.arg) )
        => /\ lastOp'.res = "already in the list"
           /\ lastOp'.saves = 0
           /\ members' = members
           /\ payments' = payments
           /\ report_channel' = report_channel ]_vars

\* "@A" has been refused on a roster that addmember alone built and that
\* holds "a" once
C5_Witness ==
    /\ lastOp.op = "addmember"
    /\ lastOp.res = "already in the list"
    /\ lastOp.arg = <<"@", "A">>
    /\ report_channel = NoChannel
    /\ members = << <<"a">> >>

----------------------------------------------------------------------------
(* Claims about parse_payment_line (under SpecParse) *)

Parsed == output # <<>>
Rejected == output[1].username = None

\* the line trimmed and lowercased
Normal(l) == lower(strip(l))

\* 0-based indices >= 1 of the tokens that parse as a number
NumericAt(toks) == {i \in 1..(Len(toks) - 1) : IsFloat(toks[i + 1])}

\* the tokens left when every occurrence of 'paid' is removed
TokensLessPaid(l) == split(replace(Normal(l), PAID))

\* the tokens left when every occurrence of ' paid' is removed, and then
\* every occurrence of 'paid'
TokensLessSpacePaid(l) ==
    split(replace(replace(Normal(l), <<" ", "p", "a", "i", "d">>), PAID))

\* C8 as stated: parse_payment_line returns (None, None) exactly when the
\* trimmed, lowercased line does not start with '@', or fewer than 2 tokens
\* remain after removing every occurrence of 'paid', or no token at index 1
\* or higher parses as a number.
C8_AsStated ==
    Parsed =>
        (Rejected <=>
            \/ ~startswith(Normal(input), <<"@">>)
            \/ Len(TokensLessPaid(input)) < 2
            \/ NumericAt(TokensLessPaid(input)) = {})

\* C8 amended: parse_payment_line returns (None, None) exactly when the
\* trimmed, lowercased line does not start with '@', or fewer than 2 tokens
\* remain after removing every occurrence of ' paid' (the word with the space
\* before it) and then every occurrence of 'paid', or no token at index 1 or
\* higher parses as a number; otherwise it returns a name and a numeric amount.
C8_Rejects ==
    Parsed =>
        /\ Rejected <=>
               \/ ~startswith(Normal(input), <<"@">>)
               \/ Len(TokensLessSpacePaid(input)) < 2
               \/ NumericAt(TokensLessSpacePaid(input)) = {}
        /\ ~Rejected => output[1].amount \in Int

\* "@a paid5": ' paid' is removed with its space, the line becomes the single
\* token "@a5" and is rejected
C8_Witness ==
    /\ Parsed
    /\ Rejected
    /\ input = <<"@", "a", " ", "p", "a", "i", "d", "5">>

\* C9: when parse_payment_line accepts a line, the amount is the value of the
\* rightmost token of index >= 1 that parses as a number, and the name is the
\* tokens before that token joined by single spaces without the leading '@';
\* tokens to the right of the amount token are ignored.
C9_RightmostAmount ==
    (Parsed /\ ~Rejected) =>
        LET toks == TokensLessSpacePaid(input)
            k == CHOOSE i \in NumericAt(toks) : \A j \in NumericAt(toks) : j <= i
            name == join(SubSeq(toks, 1, k), <<" ">>)
        IN  /\ output[1].amount = float(toks[k + 1])
            /\ name[1] = "@"
            /\ output[1].username = SubSeq(name, 2, Len(name))

\* "@a 5 15 B": two numeric tokens and a token to the right of the amount
C9_Witness ==
    /\ Parsed
    /\ ~Rejected
    /\ NumericAt(TokensLessSpacePaid(input)) = {1, 2}
    /\ Len(TokensLessSpacePaid(input)) = 4
    /\ output[1].username = <<"a", " ", "5">>
    /\ output[1].amount = 15

----------------------------------------------------------------------------
(* Claims about get_week_range (under SpecWeek) *)

\* C6: for every date D, get_week_range returns (T, T+4) where T is the most
\* recent Tuesday on or before D: D-5 on a Sunday, D-6 on a Monday and
\* D-(weekday(D)-1) on Tuesday..Saturday; T is a Tuesday, T+4 a Saturday.
C6_WeekRange ==
    output # <<>> =>
        LET D == now.day
            T == output[1][1]
            S == output[1][2]
        IN  /\ S = T + 4
            /\ DAYS[weekday(T) + 1] = "Tuesday"
            /\ DAYS[weekday(S) + 1] = "Saturday"
            /\ T <= D /\ D - T < 7
            /\ DAYS[weekday(D) + 1] = "Sunday" => T = D - 5
            /\ DAYS[weekday(D) + 1] = "Monday" => T = D - 6
            /\ DAYS[weekday(D) + 1] = "Wednesday" => <<T, S>> = <<D - 1, D + 3>>
            /\ weekday(D) \in 1..5 => T = D - (weekday(D) - 1)

\* a Monday, for which the range is the week that ended two days before
C6_Witness ==
    /\ output # <<>>
    /\ DAYS[weekday(now.day) + 1] = "Monday"
    /\ output[1] = <<now.day - 6, now.day - 2>>

----------------------------------------------------------------------------
(* Claims about generate_weekly_report (under SpecReport) *)

Reported == output # <<>>

\* the dates of the reporting week: the most recent Tuesday on or before now
\* and the four days after it
WeekDates ==
    LET T == CHOOSE d \in (now.day - 6)..now.day : DAYS[weekday(d) + 1] = "Tuesday"
    IN  {DateStr(d) : d \in T..(T + 4)}

InWeek(p) == p.date \in WeekDates

\* the sum of the amounts of the payments at the given indices
RECURSIVE AmountOver(_)
AmountOver(I) ==
    IF I = {} THEN 0
    ELSE LET i == CHOOSE j \in I : TRUE
         IN  payments[i].amount + AmountOver(I \ {i})

InWeekIdx == {i \in 1..Len(payments) : InWeek(payments[i])}

\* the number a formatted amount stands for
Unformat(text) == CHOOSE x \in -100..100 : Fmt2f(x) = text

RECURSIVE SumShown(_)
SumShown(lines) ==
    IF lines = <<>> THEN 0 ELSE Unformat(lines[1].total) + SumShown(Tail(lines))

EmptyWeekRendered(days) ==
    /\ Len(output[1].sections) = days
    /\ \A i \in 1..Len(output[1].sections) :
          /\ output[1].sections[i].no_payments
          /\ output[1].sections[i].items = <<>>
    /\ output[1].week_total = "0.00"
    /\ \A m \in Range(members) :
          Cardinality({i \in 1..Len(output[1].summary) :
                          output[1].summary[i].member = m}) = 1
    /\ \A i \in 1..Len(output[1].summary) :
          /\ output[1].summary[i].member \in Range(members)
          /\ output[1].summary[i].total = "0.00"
          /\ output[1].summary[i].status = "unpaid"

\* C7 as stated: with no payments in the reporting week the report has six
\* day sections, each without payments, a weekly total of 0.00 and one
\* summary line per roster member showing 0.00 and the unpaid marker.
C7_AsStated ==
    (Reported /\ InWeekIdx = {}) => EmptyWeekRendered(6)

\* C7 amended: with no payments in the reporting week the report has five
\* day sections, Tuesday to Saturday, each without payments, a weekly total
\* of 0.00 and one summary line per roster member showing 0.00 and the
\* unpaid marker.
C7_EmptyWeek ==
    (Reported /\ InWeekIdx = {}) =>
        /\ EmptyWeekRendered(5)
        /\ [i \in 1..5 |-> output[1].sections[i].day_name] =
               <<"Tuesday", "Wednesday", "Thursday", "Friday", "Saturday">>

\* a ledger that holds payments, all of them of an earlier week, and a
\* roster with members
C7_Witness ==
    /\ Reported
    /\ payments # <<>>
    /\ InWeekIdx = {}
    /\ members # <<>>

\* C10: every payment dated within the reporting week is listed under its day
\* and counted in that day's total and in the weekly total, whether or not
\* its member is in the roster; each roster member's summary total is the sum
\* of that member's in-week payments; payments of non-members are in no
\* member's total, so the member totals add up to the weekly total minus the
\* in-week payments of non-members.
C10_Totals ==
    Reported =>
        /\ \A i \in InWeekIdx :
              \E k \in 1..Len(output[1].sections) :
                 LET sec == output[1].sections[k]
                     same == {j \in 1..Len(payments) : payments[j].date = sec.date_str}
                 IN  /\ sec.date_str = payments[i].date
                     /\ <<payments[i].username, Fmt2f(payments[i].amount)>> \in Range(sec.items)
                     /\ Len(sec.items) = Cardinality(same)
                     /\ sec.daily_total = Fmt2f(AmountOver(same))
        /\ output[1].week_total = Fmt2f(AmountOver(InWeekIdx))
        /\ \A k \in 1..Len(output[1].summary) :
              output[1].summary[k].total =
                  Fmt2f(AmountOver({i \in InWeekIdx :
                           payments[i].username = output[1].summary[k].member}))
        /\ {output[1].summary[k].member : k \in 1..Len(output[1].summary)} = Range(members)
        /\ SumShown(output[1].summary) =
               Unformat(output[1].week_total)
               - AmountOver({i \in InWeekIdx : payments[i].username \notin Range(members)})

\* a week with a payment of a member and a payment of a name no longer in the
\* roster
C10_Witness ==
    /\ Reported
    /\ \E i \in InWeekIdx : payments[i].username \in Range(members)
    /\ \E i \in InWeekIdx : payments[i].username \notin Range(members)
    /\ Unformat(output[1].week_total) # SumShown(output[1].summary)

----------------------------------------------------------------------------
(* Claims about the loop of sunday_report (under SpecLoop) *)

\* C11 (as the specification states it): the report is sent at most once on
\* one Sunday, whatever on_ready and restarts of the process do.
C11_OncePerSunday ==
    \A i \in 1..Len(posts) : \A j \in 1..Len(posts) :
        i # j => posts[i].day # posts[j].day


----------------------------------------------------------------------------
(* Further claims about generate_weekly_report (under SpecReport) *)

----------------------------------------------------------------------------
(* Further claims about one run of on_message (under SpecMsg) *)

\* C13 (as the specification states it): no payment in the data file has an
\* amount below zero.
C13_NonNegative ==
    \A i \in 1..Len(payments) : payments[i].amount >= 0


\* the day a date string stands for
DayOfDate(date) == CHOOSE d \in 0..60 : DateStr(d) = date

CollectionDayNames == {DAYS[wd + 1] : wd \in COLLECTION_DAYS}

\* C14 (as the specification states it): every payment in the data file has
\* a day label from Tuesday to Saturday and a date that falls on one of these
\* weekdays, and a message read on a Sunday or a Monday records nothing, also
\* when the clock moves between the reads of one run.
C14_CollectionDaysOnly ==
    /\ \A i \in 1..Len(payments) :
          /\ payments[i].day \in CollectionDayNames
          /\ weekday(DayOfDate(payments[i].date)) \in COLLECTION_DAYS
    /\ (output # <<>> /\ output[1].res = "closed") =>
          (output[1].recorded_payments = <<>> /\ output[1].saves = 0)


\* the name parsed from the i-th line is that of a roster entry, letter case
\* aside
MatchesRoster(i) ==
    \E m \in Range(members) : lower(m) = lower(ParsedLine(i).username)

\* C15 (as the specification states it): in a run that reaches the loop, the
\* accepted lines whose name matches a roster entry give one record each and
\* no warning, and the accepted lines whose name matches no entry give one
\* warning each and no record, also when an entry is the empty string.
C15_RecordedIffMatched ==
    Looped =>
        /\ RecordsOf({i \in AcceptedLines : MatchesRoster(i)})
        /\ WarningsOf({i \in AcceptedLines : ~MatchesRoster(i)})


----------------------------------------------------------------------------
(* Further claims about the bot (under Spec) *)

\* C16 (as the specification states it): a removemember that answers
\* "removed" leaves a roster without the normalized name, the other entries
\* in their order; a removemember of a name that is not in the roster answers
\* "not in the list", does not save and leaves roster and payments as they
\* were; this for every roster the bot can hold, those of setup included.
C16_RemoveRemoves ==
    [][ lastOp'.op = "removemember" =>
          /\ (NormalizeName(lastOp'.arg) \in Range(members))
                 <=> lastOp'.res = "removed"
          /\ lastOp'.res = "removed" =>
                 /\ NormalizeName(lastOp'.arg) \notin Range(members')
                 /\ members' = SelectSeq(members,
                                  LAMBDA m : m # NormalizeName(lastOp'.arg))
          /\ lastOp'.res # "removed" =>
                 /\ lastOp'.res = "not in the list"
                 /\ lastOp'.saves = 0
                 /\ members' = members
                 /\ payments' = payments ]_vars


----------------------------------------------------------------------------
(* Claims about the loop in a process that keeps running (under SpecLive) *)

Sundays == {d \in 5..MaxDay : DAYS[weekday(d) + 1] = "Sunday"}

PostedAtNine(d) == \E i \in 1..Len(posts) : posts[i] = [day |-> d, hour |-> 9]

\* C17: when the loop is running at some time up to the nine o'clock hour of
\* a Sunday, with a report channel that resolves, the report is sent in the
\* nine o'clock hour of that Sunday.
C17_SundayReportPosted ==
    \A d \in Sundays :
        (running /\ ~Before([day |-> d, hour |-> 9], now)) ~> PostedAtNine(d)

\* the report of Sunday 2024-12-29 has been sent by the running loop
C17_Witness ==
    /\ running
    /\ posts = << [day |-> 6, hour |-> 9] >>
    /\ next_iteration = [day |-> 6, hour |-> 10]


----------------------------------------------------------------------------
(* Claims about handlers in flight at once (under SpecAsync) *)

AllDone == \A h \in 1..Len(tasks) : tasks[h].pc = "done"

Ran(op) == \E h \in 1..Len(tasks) : tasks[h].op = op

RECURSIVE Appended(_)
Appended(h) == IF h = 0 THEN 0 ELSE tasks[h].appended + Appended(h - 1)

\* C18: a handler writes the file on top of the data it loaded: between its
\* load_data and its save_data no other handler has written; so, when all
\* handlers are done, the file holds every payment the handlers appended
\* (if clear was not among them) and the name that addmember saved (if
\* neither setup nor removemember was among them).
C18_NoLostUpdate ==
    [][ /\ \A h \in 1..Len(tasks) :
             (tasks[h].pc = "loaded" /\ tasks'[h].pc = "saved")
                 => tasks[h].data = File
        /\ (AllDone' /\ ~Ran("clear")) => Len(payments') = Appended(Len(tasks))'
        /\ (AllDone' /\ Ran("addmember") /\ ~Ran("setup") /\ ~Ran("removemember"))
               => Bob \in Range(members') ]_vars

\* a message and an addmember were in flight together and both are done:
\* the file holds the payment and the new member
C18_Witness ==
    /\ AllDone
    /\ Ran("on_message")
    /\ Ran("addmember")
    /\ Len(payments) = 1
    /\ members = <<Alice, Bob>>


----------------------------------------------------------------------------
(* Claims about paying for a member (under SpecPay) *)

\* C19 (as the specification states it): the line '@' + m + ' ' + a + ' paid'
\* for a name m that addmember or setup stored in the roster, sent on a
\* collection day, appends exactly one payment, with username m and amount a.
C19_MemberCanBePaid ==
    lastOp.op = "on_message" =>
        /\ Len(payments) = 1
        /\ payments[1].username = members[1]
        /\ payments[1].amount = float(input.amount)


----------------------------------------------------------------------------
(* Claims about the report of the following Sunday and Monday (under        *)
(* SpecReport)                                                              *)

\* the payments stamped on a collection day of which now is the Sunday or
\* the Monday that follows
JustCollected ==
    {i \in 1..Len(payments) :
        /\ weekday(DayOfDate(payments[i].date)) \in COLLECTION_DAYS
        /\ DAYS[weekday(now.day) + 1] \in {"Sunday", "Monday"}
        /\ now.day - DayOfDate(payments[i].date) \in 1..6}

\* the report lists the i-th payment under its date
Listed(i) ==
    \E k \in 1..Len(output[1].sections) :
        /\ output[1].sections[k].date_str = payments[i].date
        /\ <<payments[i].username, Fmt2f(payments[i].amount)>>
               \in Range(output[1].sections[k].items)

\* the Tuesday that starts the reporting week of now
WeekStart == CHOOSE d \in (now.day - 6)..now.day : DAYS[weekday(d) + 1] = "Tuesday"

\* C20: the report made on the Sunday and on the Monday that follow a
\* collection day lists every payment of that day that is in the file; the
\* reporting week is the same from its Tuesday to the Monday after it and
\* another one on the Tuesday after that.
C20_FollowingReports ==
    Reported =>
        /\ \A i \in JustCollected : Listed(i)
        /\ output[1].week = <<DateStr(WeekStart), DateStr(WeekStart + 4)>>
        /\ \A d \in WeekStart..(WeekStart + 6) :
              get_week_range([day |-> d, hour |-> now.hour]) = get_week_range(now)
        /\ get_week_range([day |-> WeekStart + 7, hour |-> now.hour])
               = <<WeekStart + 7, WeekStart + 11>>

\* the report of Sunday 2024-12-29 lists a payment of the Saturday before
C20_Witness ==
    /\ Reported
    /\ now.day = 6
    /\ \E i \in JustCollected : DayOfDate(payments[i].date) = 5 /\ Listed(i)


=============================================================================
